---- MODULE Spec2Model ----
(***************************************************************************)
(* data-guardian: the alert throttle (NotificationManager) of              *)
(* src/src/notification.rs, called by concurrent threads.                  *)
(*                                                                         *)
(* Instants are integers read from one monotonic clock (now); a Duration   *)
(* is a non-negative integer.  is_in_cooldown and update_last_notification *)
(* each take the mutex on entry and drop it on return, so each body is one *)
(* step; between the two the mutex is free and other threads run.          *)
(*                                                                         *)
(* The accounting tick (monitor_processes of src/src/main.rs) and the      *)
(* control loop around it have their own variables and specifications      *)
(* (SpecDiff, SpecTick); byte counts are u64 scaled down to 0..MaxU.       *)
(***************************************************************************)
EXTENDS Integers, FiniteSets, Sequences, TLC

\* ---------------------------------------------------------------- bounds
NThreads == 2      \* concurrent callers of one NotificationManager
MaxCalls == 3      \* alert_user calls made in all, by all threads
MaxTime == 2       \* the clock stops advancing here
MaxCooldown == 2   \* cooldown windows 0..MaxCooldown are tried
MaxU == 2          \* stands for u64::MAX: byte counts are 0..MaxU
MaxTotal == 10     \* the codec is given totals 0..MaxTotal, in full decimal

Threads == 1..NThreads
Names == {"x", "y"}
Instants == 0..MaxTime
NoThread == 0      \* the mutex is free
None == -1         \* Option::None of HashMap::get
Pids == {1, 2}     \* process identifiers a snapshot may hold
Bytes == 0..MaxU   \* u64

VARIABLES
    cooldown,            \* NotificationManager.cooldown
    last_notifications,  \* NotificationManager.last_notifications (the map)
    lock,                \* holder of the Mutex, or NoThread
    poisoned,            \* the Mutex's poison flag
    now,                 \* the monotonic clock behind Instant::now()
    pc,                  \* the function each thread is about to run
    app,                 \* the argument of its alert_user call
    tnow,                \* the `now` local of is_in_cooldown
    rv,                  \* what the thread's last alert_user call returned
    calls                \* alert_user calls made so far, by all threads

vars == <<cooldown, last_notifications, lock, poisoned, now, pc, app, tnow, rv, calls>>

VARIABLES
    prev_processes,      \* main: prev_processes (ProcessData of the last tick)
    current_processes,   \* monitor_processes: current_processes
    current_usage,       \* monitor_processes: current_usage (the delta)
    app_usage,           \* main: app_usage (the ledger)
    data_limit,          \* settings.data_limit
    overflow_checks,     \* the build panics on integer overflow (else it wraps)
    merged,              \* names whose delta the last tick merged
    alerted,             \* names the last tick called notification::alert_user for
    file,                \* the persisted-state file
    last_step            \* what the control loop did last

tickVars == <<prev_processes, current_processes, current_usage, app_usage, data_limit,
              overflow_checks, merged, alerted, file, last_step>>

VARIABLES
    data,                \* compress_usage_data_with_config: data
    data_order,          \* the order in which the HashMap `data` yields its entries
    copy_order,          \* the same of a second HashMap equal to `data`
    level,               \* config.level
    compressed,          \* the result of compressing `data`
    compressed_copy,     \* the result of compressing the second HashMap
    decompressed,        \* the result of decompress_usage_data on `compressed`
    work,                \* what the compress calls did beyond checking the level
    input,               \* bytes handed to decompress_usage_data, and how they were made
    decoded              \* the result of decompress_usage_data on `input`

codecVars == <<data, data_order, copy_order, level, compressed, compressed_copy,
               decompressed, work, input, decoded>>

VARIABLES
    main_pc,             \* where main is: load, check, select, shutdown, exited
    running,             \* main: running (the flag the ctrl_c handler clears)
    last_saved,          \* the ledger the last successful save wrote, if any
    complete             \* the ledger as the last complete merge (or the load) left it

mainVars == <<main_pc, running, last_saved, complete>>

VARIABLES
    env,                 \* the DATAGUARDIAN_ variables of the environment, by field
    config_file,         \* the configuration file: absent, not TOML, or its fields
    candidate,           \* a Settings value built directly, as the tests build one
    validated,           \* the result of candidate.validate()
    new_result,          \* the result of Settings::new()
    from_file_result     \* the result of Settings::from_file(config_file)

settingsVars == <<env, config_file, candidate, validated, new_result, from_file_result>>

VARIABLES
    delivered,           \* per name, the instant delivery was last invoked for it
    outcome              \* per name, what alert_user returned to the last tick

historyVars == <<delivered, outcome>>

VARIABLES
    first_seen,          \* the counter process 1 showed when it was first seen as "x"
    counted              \* the deltas of "x" merged into the ledger since then

countVars == <<first_seen, counted>>

VARIABLES
    NOTIFICATION_MANAGER, \* the OnceLock: its state and the instance it holds
    instances,            \* NotificationManager::default() calls that have returned
    free_pc,              \* where each thread is in the free function alert_user
    manager,              \* the instance its `manager` reference points to
    waited                \* threads that found the OnceLock being initialised

globalVars == <<NOTIFICATION_MANAGER, instances, free_pc, manager, waited>>

allVars == <<vars, tickVars, codecVars, mainVars, settingsVars, historyVars, countVars,
             globalVars>>

\* The variables a specification of one part leaves alone.
notThrottle == <<tickVars, codecVars, mainVars, settingsVars, historyVars, countVars,
                globalVars>>
notTick == <<vars, codecVars, settingsVars, historyVars, globalVars>>
notCodec == <<vars, tickVars, mainVars, settingsVars, historyVars, countVars, globalVars>>
notSettings == <<vars, tickVars, codecVars, mainVars, historyVars, countVars, globalVars>>
notHistory == <<tickVars, codecVars, mainVars, settingsVars, countVars, globalVars>>
notGlobal == <<tickVars, codecVars, mainVars, settingsVars, historyVars, countVars>>

Results == {"pending", "Ok", "Cooldown", "ShowError", "LockError"}

TypeOK ==
    /\ cooldown \in 0..MaxCooldown
    /\ last_notifications \in [Names -> Instants \cup {None}]
    /\ lock \in Threads \cup {NoThread}
    /\ poisoned \in BOOLEAN
    /\ now \in Instants
    /\ pc \in [Threads -> {"idle", "is_in_cooldown", "update_last_notification",
                           "send_platform_notification", "panicked"}]
    /\ app \in [Threads -> Names]
    /\ tnow \in [Threads -> Instants]
    /\ rv \in [Threads -> Results]
    /\ calls \in 0..MaxCalls

\* ------------------------------------------------------- pure functions

\* Instant::duration_since saturates at zero.  The panic of toolchains
\* before 1.60 is kept representable; is_some_and needs 1.70, so no build
\* of this code takes it.
DurationSincePanicking(later, earlier) ==
    [panicked |-> earlier > later,
     dur |-> IF earlier > later THEN 0 ELSE later - earlier]

DurationSince(later, earlier) ==
    [panicked |-> FALSE,
     dur |-> IF earlier > later THEN 0 ELSE later - earlier]

\* The value of is_in_cooldown, from the entry `get` returned.
InCooldownInclusive(entry, at, window) ==
    entry # None /\ DurationSince(at, entry).dur <= window

InCooldownShort(entry, at, window) ==
    entry # None /\ DurationSince(at, entry).dur + 1 < window

InCooldownNoneOr(entry, at, window) ==
    entry = None \/ DurationSince(at, entry).dur < window

InCooldown(entry, at, window) ==
    entry # None /\ DurationSince(at, entry).dur < window

\* The instant update_last_notification stores: a fresh Instant::now().
RecordedInstantStale(t) == tnow[t]

RecordedInstant(t) == now

\* HashMap::insert overwrites.
InsertedEvery(m, a, at) == [n \in DOMAIN m |-> at]

InsertedIfAbsent(m, a, at) == IF m[a] = None THEN [m EXCEPT ![a] = at] ELSE m

Inserted(m, a, at) == [m EXCEPT ![a] = at]

\* The map alert_user leaves when it returns Err(Cooldown).
MapOnCooldownRefreshed(m, a, at) == [m EXCEPT ![a] = at]

MapOnCooldown(m, a, at) == m

\* The map alert_user leaves when delivery fails: the cooldown is kept.
MapOnShowErrorRolledBack(m, a) == [m EXCEPT ![a] = None]

MapOnShowError(m, a) == m

\* The mutex once update_last_notification has returned: its guard is dropped.
GuardKept(t) == t

GuardDropped(t) == NoThread

\* ------------------------------------------------------------- actions

\* A HashMap without entries.
EmptyMap == << >>

\* The accounting variables while a specification does not use them.
TickParked ==
    /\ prev_processes = EmptyMap
    /\ current_processes = EmptyMap
    /\ current_usage = EmptyMap
    /\ app_usage = EmptyMap
    /\ data_limit = 1
    /\ overflow_checks = FALSE
    /\ merged = {}
    /\ alerted = {}
    /\ file = [kind |-> "absent"]
    /\ last_step = "parked"

\* The codec's variables while a specification does not use them.
CodecParked ==
    /\ data = EmptyMap
    /\ data_order = << >>
    /\ copy_order = << >>
    /\ level = 0
    /\ compressed = [kind |-> "none"]
    /\ compressed_copy = [kind |-> "none"]
    /\ decompressed = [kind |-> "none"]
    /\ work = {}
    /\ input = [how |-> "none"]
    /\ decoded = [kind |-> "none"]

\* main's variables while a specification does not run main.
MainParked ==
    /\ main_pc = "parked"
    /\ running = TRUE
    /\ last_saved = [kind |-> "none"]
    /\ complete = EmptyMap

\* The settings' variables while a specification does not load settings.
SettingsParked ==
    /\ env = EmptyMap
    /\ config_file = [kind |-> "absent"]
    /\ candidate = EmptyMap
    /\ validated = [kind |-> "none"]
    /\ new_result = [kind |-> "none"]
    /\ from_file_result = [kind |-> "none"]

\* No delivery has been invoked, or a specification does not follow them.
HistoryParked ==
    /\ delivered = [n \in Names |-> None]
    /\ outcome = EmptyMap

\* No process is followed, or a specification does not follow one.
CountParked ==
    /\ first_seen = None
    /\ counted = 0

NoManager == 0     \* no reference to an instance

GlobalParked ==
    /\ NOTIFICATION_MANAGER = [state |-> "uninit", value |-> NoManager]
    /\ instances = 0
    /\ free_pc = [t \in Threads |-> "idle"]
    /\ manager = [t \in Threads |-> NoManager]
    /\ waited = {}

Init ==
    /\ cooldown \in 0..MaxCooldown
    /\ last_notifications = [n \in Names |-> None]
    /\ lock = NoThread
    /\ poisoned = FALSE
    /\ now = 0
    /\ pc = [t \in Threads |-> "idle"]
    /\ app = [t \in Threads |-> "x"]
    /\ tnow = [t \in Threads |-> 0]
    /\ rv = [t \in Threads |-> "pending"]
    /\ calls = 0
    /\ TickParked
    /\ CodecParked
    /\ MainParked
    /\ SettingsParked
    /\ HistoryParked
    /\ CountParked
    /\ GlobalParked

\* Time passes.
Tick ==
    /\ now < MaxTime
    /\ now' = now + 1
    /\ UNCHANGED <<cooldown, last_notifications, lock, poisoned, pc, app, tnow, rv, calls>>

\* A thread enters alert_user(a); the first statement it runs is
\* `let now = Instant::now()` of is_in_cooldown, before the lock is asked for.
AlertUser(t, a) ==
    /\ pc[t] = "idle"
    /\ calls < MaxCalls
    /\ pc' = [pc EXCEPT ![t] = "is_in_cooldown"]
    /\ app' = [app EXCEPT ![t] = a]
    /\ tnow' = [tnow EXCEPT ![t] = now]
    /\ rv' = [rv EXCEPT ![t] = "pending"]
    /\ calls' = calls + 1
    /\ UNCHANGED <<cooldown, last_notifications, lock, poisoned, now>>

\* alert_user returns r to the thread.
Return(t, r) ==
    /\ pc' = [pc EXCEPT ![t] = "idle"]
    /\ rv' = [rv EXCEPT ![t] = r]
    /\ tnow' = [tnow EXCEPT ![t] = 0]

\* is_in_cooldown under the mutex, and alert_user's early return on true.
IsInCooldown(t) ==
    /\ pc[t] = "is_in_cooldown"
    /\ lock = NoThread
    /\ UNCHANGED <<cooldown, now, app, calls, lock>>
    /\ IF poisoned
       THEN /\ Return(t, "LockError")
            /\ UNCHANGED <<last_notifications, poisoned>>
       ELSE LET entry == last_notifications[app[t]]
            IN  IF entry # None /\ DurationSince(tnow[t], entry).panicked
                THEN /\ poisoned' = TRUE
                     /\ pc' = [pc EXCEPT ![t] = "panicked"]
                     /\ UNCHANGED <<last_notifications, rv, tnow>>
                ELSE /\ UNCHANGED poisoned
                     /\ IF InCooldown(entry, tnow[t], cooldown)
                        THEN /\ Return(t, "Cooldown")
                             /\ last_notifications' =
                                    MapOnCooldown(last_notifications, app[t], now)
                        ELSE /\ pc' = [pc EXCEPT ![t] = "update_last_notification"]
                             /\ UNCHANGED <<last_notifications, rv, tnow>>

\* update_last_notification under the mutex.
UpdateLastNotification(t) ==
    /\ pc[t] = "update_last_notification"
    /\ lock = NoThread
    /\ UNCHANGED <<cooldown, poisoned, now, app, calls>>
    /\ IF poisoned
       THEN /\ Return(t, "LockError")
            /\ UNCHANGED <<last_notifications, lock>>
       ELSE /\ last_notifications' =
                   Inserted(last_notifications, app[t], RecordedInstant(t))
            /\ lock' = GuardDropped(t)
            /\ pc' = [pc EXCEPT ![t] = "send_platform_notification"]
            /\ UNCHANGED <<rv, tnow>>

\* send_platform_notification succeeds: alert_user returns Ok(()).
SendOk(t) ==
    /\ pc[t] = "send_platform_notification"
    /\ Return(t, "Ok")
    /\ UNCHANGED <<cooldown, last_notifications, lock, poisoned, now, app, calls>>

\* send_platform_notification fails: alert_user returns Err(ShowError).
SendFail(t) ==
    /\ pc[t] = "send_platform_notification"
    /\ Return(t, "ShowError")
    /\ last_notifications' = MapOnShowError(last_notifications, app[t])
    /\ UNCHANGED <<cooldown, lock, poisoned, now, app, calls>>

Next ==
    \/ Tick /\ UNCHANGED notThrottle
    \/ \E t \in Threads, a \in Names : AlertUser(t, a) /\ UNCHANGED notThrottle
    \/ \E t \in Threads : IsInCooldown(t) /\ UNCHANGED notThrottle
    \/ \E t \in Threads : UpdateLastNotification(t) /\ UNCHANGED notThrottle
    \/ \E t \in Threads : SendOk(t) /\ UNCHANGED notThrottle
    \/ \E t \in Threads : SendFail(t) /\ UNCHANGED notThrottle

Spec == Init /\ [][Next]_allVars

\* -------------------------------------------------------------- claims

\* The thread has passed the cooldown check of its current call.
Passed(t) == pc[t] \in {"update_last_notification", "send_platform_notification"}

\* C1: with a window greater than zero and no recorded attempt for "x",
\* NThreads alert_user("x") calls, one per thread and all begun and ended
\* inside one window, end with exactly one call that was not refused and
\* NThreads - 1 calls that returned Cooldown.
C1_ExactlyOneAttempted ==
    ( /\ cooldown > 0
      /\ now < cooldown
      /\ calls = NThreads
      /\ \A t \in Threads : pc[t] = "idle" /\ app[t] = "x" /\ rv[t] # "pending" )
    => /\ Cardinality({t \in Threads : rv[t] \in {"Ok", "ShowError"}}) = 1
       /\ Cardinality({t \in Threads : rv[t] = "Cooldown"}) = NThreads - 1

\* C2: two calls for one name that have both passed the cooldown check have
\* check instants at least the window apart, and no caller stands between its
\* check and its recording while another caller of that name passes the check.
C2_AtMostOnePerWindow ==
    cooldown > 0 =>
        \A t, u \in Threads :
            (t # u /\ Passed(t) /\ Passed(u) /\ app[t] = app[u])
            => /\ tnow[t] - tnow[u] >= cooldown \/ tnow[u] - tnow[t] >= cooldown
               /\ ~(pc[t] = "update_last_notification" /\ pc[u] = "update_last_notification")

\* C3: while delivery runs the attempt is already in the map, stamped no
\* earlier than the call's check; a failed delivery leaves the map as it is,
\* the entry stays, and a later call for that name that checks inside the
\* window after the failure returns Cooldown.
C3_ChargedOnAttempt ==
    /\ [](\A t \in Threads :
            /\ pc[t] = "send_platform_notification"
               => /\ last_notifications[app[t]] # None
                  /\ last_notifications[app[t]] >= tnow[t]
            /\ (pc[t] = "idle" /\ rv[t] = "ShowError")
               => last_notifications[app[t]] # None)
    /\ [][\A t \in Threads :
            /\ (pc[t] = "send_platform_notification" /\ rv'[t] = "ShowError")
               => last_notifications' = last_notifications
            /\ \A u \in Threads :
                 ( /\ pc[t] = "idle" /\ rv[t] = "ShowError"
                   /\ pc[u] = "is_in_cooldown" /\ pc'[u] # pc[u]
                   /\ app[u] = app[t]
                   /\ tnow[u] >= last_notifications[app[u]]
                   /\ tnow[u] - last_notifications[app[u]] < cooldown )
                 => (pc'[u] = "idle" /\ rv'[u] = "Cooldown")]_vars

C3_Witness ==
    /\ cooldown > 0
    /\ \E t, u \in Threads :
         /\ t # u /\ app[t] = app[u]
         /\ pc[t] = "idle" /\ rv[t] = "ShowError"
         /\ pc[u] = "idle" /\ rv[u] = "Cooldown"

\* C4: the step in which alert_user returns Cooldown comes straight from the
\* cooldown check (delivery was not invoked) and leaves the whole map as it
\* was; entering the call writes nothing either.
C4_CooldownLeavesMap ==
    [][\A t \in Threads :
         /\ (pc[t] # "idle" /\ pc'[t] = "idle" /\ rv'[t] = "Cooldown")
            => /\ pc[t] = "is_in_cooldown"
               /\ last_notifications' = last_notifications
         /\ (pc[t] = "idle" /\ pc'[t] # "idle")
            => /\ pc'[t] = "is_in_cooldown"
               /\ last_notifications' = last_notifications]_vars

C4_Witness ==
    \E t \in Threads :
        /\ pc[t] = "idle" /\ rv[t] = "Cooldown"
        /\ last_notifications[app[t]] # None

\* C5: a check made when the window or more has passed since the recorded
\* attempt (exactly the window included) is not refused: the call goes on to
\* update_last_notification, which stores the current instant and hands over
\* to delivery.
C5_ReEligible ==
    [][\A t \in Threads :
         /\ ( /\ pc[t] = "is_in_cooldown" /\ pc'[t] # pc[t]
              /\ last_notifications[app[t]] # None
              /\ tnow[t] - last_notifications[app[t]] >= cooldown )
            => pc'[t] = "update_last_notification"
         /\ (pc[t] = "update_last_notification" /\ pc'[t] # pc[t])
            => /\ pc'[t] = "send_platform_notification"
               /\ last_notifications'[app[t]] = now]_vars

C5_Witness ==
    /\ cooldown > 0
    /\ \E t \in Threads :
         /\ pc[t] = "update_last_notification"
         /\ last_notifications[app[t]] # None
         /\ tnow[t] - last_notifications[app[t]] = cooldown

\* C6: the check reports cooldown exactly when the name has an entry and the
\* time from that entry to the instant the check sampled (a Duration: zero
\* when the entry is the later one) is strictly less than the window; a name
\* without an entry, as every name is at the start, is eligible.
C6_CooldownIff ==
    /\ [](calls = 0 => \A n \in Names : last_notifications[n] = None)
    /\ [][\A t \in Threads :
            (pc[t] = "is_in_cooldown" /\ pc'[t] # pc[t])
            => LET entry == last_notifications[app[t]]
                   elapsed == IF tnow[t] >= entry THEN tnow[t] - entry ELSE 0
               IN  (pc'[t] = "idle" /\ rv'[t] = "Cooldown")
                   <=> (entry # None /\ elapsed < cooldown)]_vars

C6_Witness ==
    \E t, u \in Threads :
        /\ t # u /\ app[t] = app[u]
        /\ pc[t] = "idle" /\ rv[t] = "Cooldown"
        /\ pc[u] = "update_last_notification"
        /\ last_notifications[app[u]] # None

\* C7: alert_user returns Ok, Cooldown or ShowError only: the mutex is never
\* poisoned, no thread panics under it, and LockError is never returned.
C7_NoLockError ==
    /\ ~poisoned
    /\ \A t \in Threads :
         /\ pc[t] # "panicked"
         /\ rv[t] \in {"pending", "Ok", "Cooldown", "ShowError"}

\* The check is about to compare a sampled instant with a later entry.
C7_Witness ==
    \E t, u \in Threads :
        /\ t # u
        /\ pc[t] = "is_in_cooldown"
        /\ last_notifications[app[t]] # None
        /\ tnow[t] < last_notifications[app[t]]
        /\ pc[u] = "idle" /\ rv[u] \in {"Ok", "ShowError"}

\* The thread is at the cooldown check of a manager whose window is not
\* empty, with a sampled instant less than the window after the recorded
\* attempt.
InWindow(t) ==
    /\ cooldown > 0
    /\ pc[t] = "is_in_cooldown"
    /\ last_notifications[app[t]] # None
    /\ tnow[t] - last_notifications[app[t]] < cooldown

\* C8: a caller at the check inside the window stays inside it whatever the
\* other threads do, its next step returns Cooldown without delivery and
\* without writing the map; and while every running call is such a caller,
\* no step changes the map.
C8_AllInCooldown ==
    [][/\ \A t \in Threads :
            InWindow(t) =>
                IF pc'[t] = pc[t]
                THEN InWindow(t)'
                ELSE /\ pc'[t] = "idle" /\ rv'[t] = "Cooldown"
                     /\ last_notifications' = last_notifications
       /\ (\A t \in Threads : pc[t] = "idle" \/ InWindow(t))
            => last_notifications' = last_notifications]_vars

C8_Witness ==
    /\ calls = NThreads + 1
    /\ \A t \in Threads : InWindow(t) /\ app[t] = "x"

\* C9: while any thread runs delivery the mutex is free, and every other
\* thread waiting for it (at the check or at the recording, of any name) can
\* take its step.
C9_LockFreeDuringSend ==
    \A t \in Threads :
        pc[t] = "send_platform_notification"
        => /\ lock = NoThread
           /\ \A u \in Threads \ {t} :
                /\ pc[u] = "is_in_cooldown" => ENABLED IsInCooldown(u)
                /\ pc[u] = "update_last_notification"
                   => ENABLED UpdateLastNotification(u)

C9_Witness ==
    \E t, u \in Threads :
        /\ pc[t] = "send_platform_notification"
        /\ pc[u] = "send_platform_notification"
        /\ app[t] # app[u]

\* C10: no step removes an entry, and a name gains its first entry only in
\* the update_last_notification step of a call for that name, which is past
\* the cooldown check.
C10_NeverRemoved ==
    [][\A n \in Names :
         /\ last_notifications[n] # None => last_notifications'[n] # None
         /\ (last_notifications[n] = None /\ last_notifications'[n] # None)
            => \E t \in Threads :
                 /\ pc[t] = "update_last_notification" /\ app[t] = n
                 /\ pc'[t] = "send_platform_notification"]_vars

C10_Witness ==
    /\ \A n \in Names : last_notifications[n] # None
    /\ \E t, u \in Threads :
         /\ pc[t] = "idle" /\ rv[t] = "ShowError"
         /\ pc[u] = "idle" /\ rv[u] = "Cooldown"

\* ------------------------------------------------- accounting: pure functions

\* ProcessData: a map from PID to (name, cumulative bytes).
Snapshots == UNION {[D -> Names \X Bytes] : D \in SUBSET Pids}

\* UsageData: a map from application name to bytes.
UsageMaps == UNION {[D -> Bytes] : D \in SUBSET Names}

\* HashMap::insert / the write through an entry.
Put(m, k, v) == [x \in DOMAIN m \cup {k} |-> IF x = k THEN v ELSE m[x]]

\* entry(k).or_insert(0), read.
GetOrZero(m, k) == IF k \in DOMAIN m THEN m[k] ELSE 0

\* The orders in which a HashMap with key set S may be iterated.
Orders(S) ==
    {o \in [1..Cardinality(S) -> S] : \A i, j \in DOMAIN o : i # j => o[i] # o[j]}

SaturatingSubWrapping(a, b) == (a - b + MaxU + 1) % (MaxU + 1)

\* u64::saturating_sub
SaturatingSub(a, b) == IF a > b THEN a - b ELSE 0

\* The u64 sum a + b does not fit.
Overflows(a, b) == a + b > MaxU

\* a += b where the build does not check for overflow.
WrappingAdd(a, b) == (a + b) % (MaxU + 1)

ContinuingAnyName(prev, cur, p) == p \in DOMAIN prev

\* if let Some((prev_app, _)) = prev_processes.get(pid) { if prev_app == app_name
Continuing(prev, cur, p) == p \in DOMAIN prev /\ prev[p][1] = cur[p][1]

\* The loop over current_processes: acc is the delta built so far and whether
\* an addition has overflowed.
RECURSIVE DiffLoop(_, _, _, _)
DiffLoop(prev, cur, todo, acc) ==
    IF todo = {} THEN acc
    ELSE LET p == CHOOSE q \in todo : TRUE
             n == cur[p][1]
             old == GetOrZero(acc.usage, n)
             inc == SaturatingSub(cur[p][2], prev[p][2])
         IN  IF Continuing(prev, cur, p)
             THEN DiffLoop(prev, cur, todo \ {p},
                           [usage |-> Put(acc.usage, n, WrappingAdd(old, inc)),
                            overflowed |-> acc.overflowed \/ Overflows(old, inc)])
             ELSE DiffLoop(prev, cur, todo \ {p}, acc)

\* current_usage as the first loop of monitor_processes leaves it.
Diff(prev, cur) ==
    DiffLoop(prev, cur, DOMAIN cur, [usage |-> EmptyMap, overflowed |-> FALSE])

ExceedsInclusive(total, limit) == total >= limit

\* *total_usage > settings.data_limit
Exceeds(total, limit) == total > limit

\* The loop over current_usage, taken in the order the map yields its entries:
\* acc is the ledger, the names merged, the names alert_user was called for,
\* and whether an addition has panicked.
RECURSIVE MergeLoop(_, _, _, _, _, _)
MergeLoop(order, i, delta, limit, checks, acc) ==
    IF i > Len(order) THEN acc
    ELSE LET n == order[i]
             old == GetOrZero(acc.usage, n)
             total == WrappingAdd(old, delta[n])
         IN  IF Overflows(old, delta[n]) /\ checks
             THEN [acc EXCEPT !.usage = Put(acc.usage, n, old), !.panicked = TRUE]
             ELSE MergeLoop(order, i + 1, delta, limit, checks,
                     [usage |-> Put(acc.usage, n, total),
                      merged |-> acc.merged \cup {n},
                      alerted |-> IF Exceeds(total, limit)
                                  THEN acc.alerted \cup {n} ELSE acc.alerted,
                      panicked |-> FALSE])

\* ------------------------------------------------------ accounting: actions

\* The throttle's variables while a specification does not use them.
ThrottleParked ==
    /\ cooldown = 0
    /\ last_notifications = [a \in Names |-> None]
    /\ lock = NoThread
    /\ poisoned = FALSE
    /\ now = 0
    /\ pc = [t \in Threads |-> "idle"]
    /\ app = [t \in Threads |-> "x"]
    /\ tnow = [t \in Threads |-> 0]
    /\ rv = [t \in Threads |-> "pending"]
    /\ calls = 0

\* The delta computation on its own: any two snapshots.
InitDiff ==
    /\ prev_processes \in Snapshots
    /\ current_processes \in Snapshots
    /\ current_usage = EmptyMap
    /\ overflow_checks \in BOOLEAN
    /\ last_step = "get_current_processes"
    /\ app_usage = EmptyMap
    /\ data_limit = 1
    /\ merged = {}
    /\ alerted = {}
    /\ file = [kind |-> "absent"]
    /\ ThrottleParked
    /\ CodecParked
    /\ MainParked
    /\ SettingsParked
    /\ HistoryParked
    /\ CountParked
    /\ GlobalParked

\* The first loop of monitor_processes.
CalculateDelta ==
    /\ last_step = "get_current_processes"
    /\ \E d \in {Diff(prev_processes, current_processes)} :
           IF d.overflowed /\ overflow_checks
           THEN /\ last_step' = "delta_overflow"
                /\ UNCHANGED current_usage
           ELSE /\ last_step' = "delta"
                /\ current_usage' = d.usage
    /\ UNCHANGED <<prev_processes, current_processes, app_usage, data_limit,
                   overflow_checks, merged, alerted, file, notTick>>

NextDiff == CalculateDelta /\ UNCHANGED <<mainVars, countVars>>

SpecDiff == InitDiff /\ [][NextDiff]_allVars

\* main up to the service loop; app_usage is whatever load_persisted_data
\* restored, and the file is left to the persistence steps.
InitTick ==
    /\ file = [kind |-> "absent"]
    /\ app_usage \in UsageMaps
    /\ prev_processes = EmptyMap
    /\ data_limit \in 1..(MaxU - 1)
    /\ overflow_checks \in BOOLEAN
    /\ current_processes = EmptyMap
    /\ current_usage = EmptyMap
    /\ merged = {}
    /\ alerted = {}
    /\ last_step = "main"
    /\ ThrottleParked
    /\ CodecParked
    /\ MainParked
    /\ SettingsParked
    /\ HistoryParked
    /\ CountParked
    /\ GlobalParked

RunningAlways == TRUE

\* The process has not panicked on an overflowing addition.
Running == last_step \notin {"delta_overflow", "merge_overflow"}

BaselineKept(prev, cur) == prev

\* *prev_processes = current_processes;
Baseline(prev, cur) == cur

\* monitor_processes with the snapshot cur; the delta is merged in the order
\* in which current_usage yields its entries.
MonitorProcesses(cur) ==
    /\ Running
    /\ \E d \in {Diff(prev_processes, cur)} :
           IF d.overflowed /\ overflow_checks
           THEN /\ last_step' = "delta_overflow"
                /\ UNCHANGED <<prev_processes, app_usage, merged, alerted>>
           ELSE \E order \in Orders(DOMAIN d.usage) :
                \E r \in {MergeLoop(order, 1, d.usage, data_limit, overflow_checks,
                                    [usage |-> app_usage, merged |-> {},
                                     alerted |-> {}, panicked |-> FALSE])} :
                    /\ prev_processes' = Baseline(prev_processes, cur)
                    /\ app_usage' = r.usage
                    /\ merged' = r.merged
                    /\ alerted' = r.alerted
                    /\ last_step' = IF r.panicked THEN "merge_overflow"
                                    ELSE "monitor_processes"
    /\ UNCHANGED <<current_processes, current_usage, data_limit, overflow_checks,
                   file, notTick>>

\* monitor_processes when get_current_processes fails: the error is logged.
SnapshotFails ==
    /\ Running
    /\ UNCHANGED allVars

NextTick ==
    \/ \E cur \in Snapshots : MonitorProcesses(cur) /\ UNCHANGED <<mainVars, countVars>>
    \/ SnapshotFails

SpecTick == InitTick /\ [][NextTick]_allVars

\* ------------------------------------------------------ accounting: claims

\* The PIDs of snapshot cur that snapshot prev holds under the same name n.
SameNamePids(prev, cur, n) ==
    {p \in DOMAIN prev \cap DOMAIN cur : prev[p][1] = n /\ cur[p][1] = n}

\* The sum over the PIDs ps of current bytes minus previous bytes, a fall of
\* the counter counting as zero; an unbounded integer.
RECURSIVE IncrementSum(_, _, _)
IncrementSum(prev, cur, ps) ==
    IF ps = {} THEN 0
    ELSE LET p == CHOOSE q \in ps : TRUE
         IN  (IF cur[p][2] > prev[p][2] THEN cur[p][2] - prev[p][2] ELSE 0)
                 + IncrementSum(prev, cur, ps \ {p})

Min(a, b) == IF a < b THEN a ELSE b

\* C11: the delta computed from two snapshots has an entry exactly for the
\* names some PID holds in both, and the entry is the sum over those PIDs of
\* current bytes saturating-minus previous bytes; the computation completes.
C11_DeltaIsSum ==
    last_step # "get_current_processes" =>
        /\ last_step = "delta"
        /\ DOMAIN current_usage =
               {n \in Names : SameNamePids(prev_processes, current_processes, n) # {}}
        /\ \A n \in DOMAIN current_usage :
               current_usage[n] =
                   IncrementSum(prev_processes, current_processes,
                                SameNamePids(prev_processes, current_processes, n))

\* C12: on a tick that completes, a name no PID holds in both snapshots gets
\* no delta merged, no alert, and keeps its ledger entry as it was (absent or
\* the same total); a name some PID holds in both gains only the increments
\* of those PIDs (when that sum fits); the first tick, whose previous
\* snapshot is empty, leaves the ledger unchanged and raises no alert.
C12_PidReuseGuard ==
    [][ last_step' = "monitor_processes" =>
          /\ \A n \in Names :
                LET ps == SameNamePids(prev_processes, prev_processes', n)
                    sum == GetOrZero(app_usage, n)
                               + IncrementSum(prev_processes, prev_processes', ps)
                IN  /\ ps = {} =>
                          /\ n \notin merged'
                          /\ n \notin alerted'
                          /\ (n \in DOMAIN app_usage') = (n \in DOMAIN app_usage)
                          /\ n \in DOMAIN app_usage => app_usage'[n] = app_usage[n]
                    /\ (ps # {} /\ sum <= MaxU) =>
                          /\ n \in merged'
                          /\ app_usage'[n] = sum
          /\ prev_processes = EmptyMap =>
                (app_usage' = app_usage /\ alerted' = {} /\ merged' = {})
      ]_tickVars

\* A tick has completed on a snapshot holding processes with bytes on their
\* counters, none of which was present before under its name: nothing merged.
C12_Witness ==
    /\ last_step = "monitor_processes"
    /\ \E p \in DOMAIN prev_processes : prev_processes[p][2] > 0
    /\ DOMAIN prev_processes = Pids
    /\ prev_processes[1][1] # prev_processes[2][1]
    /\ merged = {}
    /\ alerted = {}
    /\ \E n \in DOMAIN app_usage : app_usage[n] > data_limit

\* C13: when every PID that continues under name n has a current counter
\* below its previous one, the delta has an entry for n and it is 0.
C13_CounterReset ==
    last_step = "delta" =>
        \A n \in Names :
            LET ps == SameNamePids(prev_processes, current_processes, n)
            IN  ( /\ ps # {}
                  /\ \A p \in ps : current_processes[p][2] < prev_processes[p][2] )
                => (n \in DOMAIN current_usage /\ current_usage[n] = 0)

\* A counter fell from MaxU and the delta holds 0 for its name.
C13_Witness ==
    /\ last_step = "delta"
    /\ \E p \in DOMAIN prev_processes \cap DOMAIN current_processes :
          /\ prev_processes[p][1] = current_processes[p][1]
          /\ prev_processes[p][2] = MaxU
          /\ current_processes[p][2] < MaxU
          /\ current_usage[current_processes[p][1]] = 0

\* C14: every tick completes, and the total of each merged name becomes
\* min(old total + delta, u64::MAX).
C14_SaturatingMerge ==
    [][ /\ last_step' # "merge_overflow"
        /\ last_step' = "monitor_processes" =>
              \A n \in merged' :
                  app_usage'[n] =
                      Min(GetOrZero(app_usage, n)
                              + Diff(prev_processes, prev_processes').usage[n],
                          MaxU)
      ]_tickVars

\* C15: no step lowers the total of a ledger entry or removes an entry.
C15_LedgerMonotone ==
    [][ \A n \in DOMAIN app_usage :
            n \in DOMAIN app_usage' /\ app_usage'[n] >= app_usage[n] ]_tickVars

\* C16: a name the tick called alert_user for has a total greater than
\* data_limit, and had its delta merged on this tick.
C16_StrictThreshold ==
    \A n \in alerted :
        /\ n \in merged
        /\ n \in DOMAIN app_usage
        /\ app_usage[n] > data_limit

\* One merged name reached exactly data_limit and was not alerted while the
\* other went beyond it and was.
C16_Witness ==
    /\ last_step = "monitor_processes"
    /\ \E n \in merged \ alerted : app_usage[n] = data_limit
    /\ \E n \in alerted : app_usage[n] = data_limit + 1

\* C17: after a tick that completes, alert_user has been called for every
\* name whose ledger total is greater than data_limit.
C17_EveryOverLimitAsked ==
    last_step = "monitor_processes" =>
        \A n \in DOMAIN app_usage : app_usage[n] > data_limit => n \in alerted

\* ---------------------------------------------- the throttle without an end

\* The name the unending run calls alert_user for; entries of other names
\* are not read or written by these calls.
LiveName == "x"

\* An instant one tick further in the past; MaxTime or more ago stays at 0.
Shift(i) == IF i = None THEN None ELSE IF i > 0 THEN i - 1 ELSE 0

\* The unending run keeps instants relative to the clock: the clock reads
\* MaxTime for ever, and the windows tried are no longer than that, so an
\* instant at 0 is at least a window in the past.
InitLive ==
    /\ cooldown \in {c \in 0..MaxCooldown : c <= MaxTime}
    /\ last_notifications = [n \in Names |-> None]
    /\ lock = NoThread
    /\ poisoned = FALSE
    /\ now = MaxTime
    /\ pc = [t \in Threads |-> "idle"]
    /\ app = [t \in Threads |-> LiveName]
    /\ tnow = [t \in Threads |-> 0]
    /\ rv = [t \in Threads |-> "pending"]
    /\ calls = 0
    /\ TickParked
    /\ CodecParked
    /\ MainParked
    /\ SettingsParked
    /\ HistoryParked
    /\ CountParked
    /\ GlobalParked

\* Time passes: every recorded instant moves one unit into the past, and a
\* sampled `now` moves with the entry it will be compared with, so that the
\* duration_since between the two is what it was.
TimePasses ==
    /\ last_notifications' = [n \in Names |-> Shift(last_notifications[n])]
    /\ tnow' = [t \in Threads |->
                   IF last_notifications[app[t]] = None THEN tnow[t]
                   ELSE Shift(last_notifications[app[t]])
                            + DurationSince(tnow[t], last_notifications[app[t]]).dur]
    /\ UNCHANGED <<cooldown, lock, poisoned, now, pc, app, rv, calls>>

\* A thread enters alert_user(LiveName) once more; calls are not counted.
AlertUserAgain(t) ==
    /\ pc[t] = "idle"
    /\ pc' = [pc EXCEPT ![t] = "is_in_cooldown"]
    /\ app' = [app EXCEPT ![t] = LiveName]
    /\ tnow' = [tnow EXCEPT ![t] = now]
    /\ rv' = [rv EXCEPT ![t] = "pending"]
    /\ UNCHANGED <<cooldown, last_notifications, lock, poisoned, now, calls>>

NextLive ==
    \/ TimePasses /\ UNCHANGED notThrottle
    \/ \E t \in Threads : AlertUserAgain(t) /\ UNCHANGED notThrottle
    \/ \E t \in Threads : IsInCooldown(t) /\ UNCHANGED notThrottle
    \/ \E t \in Threads : UpdateLastNotification(t) /\ UNCHANGED notThrottle
    \/ \E t \in Threads : SendOk(t) /\ UNCHANGED notThrottle
    \/ \E t \in Threads : SendFail(t) /\ UNCHANGED notThrottle

\* Time keeps advancing, alert_user keeps being called, and a thread inside
\* alert_user is scheduled until the call returns.
FairLive ==
    /\ WF_allVars(TimePasses /\ UNCHANGED notThrottle)
    /\ WF_allVars(\E t \in Threads : AlertUserAgain(t) /\ UNCHANGED notThrottle)
    /\ \A t \in Threads :
          /\ WF_allVars(IsInCooldown(t) /\ UNCHANGED notThrottle)
          /\ WF_allVars(UpdateLastNotification(t) /\ UNCHANGED notThrottle)
          /\ WF_allVars((SendOk(t) \/ SendFail(t)) /\ UNCHANGED notThrottle)

SpecLive == InitLive /\ [][NextLive]_allVars /\ FairLive

\* C18: with time advancing and alert_user(LiveName) called again and again
\* by any of the threads, a call is past the cooldown check and at the
\* delivery infinitely often.
C18_NeverBlockedForever ==
    []<>(\E t \in Threads :
            pc[t] = "send_platform_notification" /\ app[t] = LiveName)

\* In a window greater than zero a call has passed the cooldown check on an
\* entry that an earlier call recorded and ticks have aged by a window or
\* more, another call having been refused; the delivery is its next step.
C18_Witness ==
    /\ cooldown > 0
    /\ \E t \in Threads, u \in Threads :
          /\ t # u
          /\ rv[u] = "Cooldown"
          /\ pc[t] = "update_last_notification"
          /\ last_notifications[LiveName] # None
          /\ tnow[t] - last_notifications[LiveName] >= cooldown

\* ----------------------------------------------------------------- the codec
\*
\* A byte string is a sequence of tokens: the characters of the JSON text,
\* and one token for each field of the gzip frame.  serde_json and flate2
\* are modelled by what they write and read: compact JSON with escaped
\* strings and decimal numbers, entries in the order the map yields them; a
\* gzip member with header, comment, a body that is stored at level 0 and
\* run-length packed above it, and a trailer of checksum and length.

\* if config.level > 9
MaxValidLevel == 9

\* The levels tried: every valid one and the first invalid one.
Levels == 0..(MaxValidLevel + 1)

\* Application names as character strings; the second needs escaping.
Keys == {<<"x">>, <<"\\", "\"">>}

\* HashMap<String, u64> values handed to the codec.
Mappings == UNION {[D -> 0..MaxTotal] : D \in SUBSET Keys}

Digits == <<"0", "1", "2", "3", "4", "5", "6", "7", "8", "9">>

DigitValue(c) == (CHOOSE i \in 1..10 : Digits[i] = c) - 1

IsDigit(c) == \E i \in 1..10 : Digits[i] = c

\* The characters the JSON text of a mapping is made of.
Alphabet == <<"{", "}", "\"", "\\", ":", ",", "x">> \o Digits

\* The byte value of a character; any other byte counts as one more value.
Code(c) ==
    IF \E i \in 1..Len(Alphabet) : Alphabet[i] = c
    THEN CHOOSE i \in 1..Len(Alphabet) : Alphabet[i] = c
    ELSE Len(Alphabet) + 1

\* u64 written in decimal.
RECURSIVE Decimal(_)
Decimal(n) ==
    IF n < 10 THEN <<Digits[n + 1]>>
    ELSE Decimal(n \div 10) \o <<Digits[(n % 10) + 1]>>

EscapedCharRaw(c) == <<c>>

\* A character inside a JSON string: quote and backslash are escaped.
EscapedChar(c) == IF c = "\"" \/ c = "\\" THEN <<"\\", c>> ELSE <<c>>

RECURSIVE Escaped(_)
Escaped(k) == IF k = << >> THEN << >> ELSE EscapedChar(Head(k)) \o Escaped(Tail(k))

JsonString(k) == <<"\"">> \o Escaped(k) \o <<"\"">>

\* The entries from the i-th on, in the order the map yields them.
RECURSIVE JsonEntries(_, _, _)
JsonEntries(m, order, i) ==
    IF i > Len(order) THEN << >>
    ELSE (IF i > 1 THEN <<",">> ELSE << >>)
             \o JsonString(order[i]) \o <<":">> \o Decimal(m[order[i]])
             \o JsonEntries(m, order, i + 1)

\* serde_json::to_writer on a HashMap<String, u64>.
ToJson(m, order) == <<"{">> \o JsonEntries(m, order, 1) \o <<"}">>

\* serde_json::from_slice into a HashMap<String, u64>: the text is read
\* character by character; st is the place in the grammar, key and val the
\* entry being read, m the entries read so far (a repeated key keeps the
\* later value).  The totals tried stay far below u64::MAX, so the number
\* read always fits.
RECURSIVE FromJsonAt(_, _, _, _, _, _)
FromJsonAt(s, i, st, key, val, m) ==
    IF i > Len(s)
    THEN IF st = "end" THEN [kind |-> "Ok", data |-> m]
         ELSE [kind |-> "Serialization"]
    ELSE LET c == s[i]
             bad == [kind |-> "Serialization"]
             put == [k \in DOMAIN m \cup {key} |-> IF k = key THEN val ELSE m[k]]
         IN  CASE st = "start" ->
                    IF c = "{" THEN FromJsonAt(s, i + 1, "first", key, val, m) ELSE bad
               [] st = "first" ->
                    IF c = "}" THEN FromJsonAt(s, i + 1, "end", key, val, m)
                    ELSE IF c = "\"" THEN FromJsonAt(s, i + 1, "key", << >>, 0, m)
                    ELSE bad
               [] st = "next" ->
                    IF c = "\"" THEN FromJsonAt(s, i + 1, "key", << >>, 0, m) ELSE bad
               [] st = "key" ->
                    IF c = "\"" THEN FromJsonAt(s, i + 1, "colon", key, val, m)
                    ELSE IF c = "\\" THEN FromJsonAt(s, i + 1, "escape", key, val, m)
                    ELSE FromJsonAt(s, i + 1, "key", Append(key, c), val, m)
               [] st = "escape" ->
                    IF c = "\"" \/ c = "\\"
                    THEN FromJsonAt(s, i + 1, "key", Append(key, c), val, m)
                    ELSE bad
               [] st = "colon" ->
                    IF c = ":" THEN FromJsonAt(s, i + 1, "number", key, val, m) ELSE bad
               [] st = "number" ->
                    IF ~IsDigit(c) THEN bad
                    ELSE IF c = "0" THEN FromJsonAt(s, i + 1, "zero", key, 0, m)
                    ELSE FromJsonAt(s, i + 1, "digits", key, DigitValue(c), m)
               [] st = "digits" ->
                    IF IsDigit(c)
                    THEN FromJsonAt(s, i + 1, "digits", key, 10 * val + DigitValue(c), m)
                    ELSE IF c = "," THEN FromJsonAt(s, i + 1, "next", key, val, put)
                    ELSE IF c = "}" THEN FromJsonAt(s, i + 1, "end", key, val, put)
                    ELSE bad
               [] st = "zero" ->
                    IF c = "," THEN FromJsonAt(s, i + 1, "next", key, val, put)
                    ELSE IF c = "}" THEN FromJsonAt(s, i + 1, "end", key, val, put)
                    ELSE bad
               [] OTHER -> bad

FromJsonLenient(s) ==
    IF FromJsonAt(s, 1, "start", << >>, 0, << >>).kind = "Ok"
    THEN FromJsonAt(s, 1, "start", << >>, 0, << >>)
    ELSE [kind |-> "Ok", data |-> << >>]

FromJson(s) == FromJsonAt(s, 1, "start", << >>, 0, << >>)

\* The checksum of the trailer, over the uncompressed text.
RECURSIVE ChecksumAt(_, _, _)
ChecksumAt(s, i, acc) ==
    IF i > Len(s) THEN acc
    ELSE ChecksumAt(s, i + 1, (acc * 31 + Code(s[i])) % 251)

Checksum(s) == ToString(ChecksumAt(s, 1, 7))

\* The XFL byte GzBuilder derives from the level.
Xfl(l) == IF l >= 9 THEN "xfl2" ELSE IF l <= 1 THEN "xfl4" ELSE "xfl0"

\* GzBuilder::new().comment(..): magic, method, flags, mtime 0, XFL, OS, and
\* the comment with its terminator.
GzHeader(l) ==
    <<"1f", "8b", "deflate", "fcomment", "mtime0", Xfl(l), "os",
      "DataGuardian usage data", "nul">>

\* The length of the run of equal characters s starts with, 9 at most.
RECURSIVE RunAt(_, _)
RunAt(s, n) ==
    IF n < Len(s) /\ n < 9 /\ s[n + 1] = s[1] THEN RunAt(s, n + 1) ELSE n

\* The packed body: each run as its character and its length.
RECURSIVE Packed(_)
Packed(s) ==
    IF s = << >> THEN << >>
    ELSE <<s[1], Digits[RunAt(s, 1) + 1]>>
             \o Packed(SubSeq(s, RunAt(s, 1) + 1, Len(s)))

\* Compression::new(level): level 0 stores, the others pack.
Deflate(l, s) == IF l = 0 THEN <<"stored">> \o s ELSE <<"packed">> \o Packed(s)

\* n times the character c.
RECURSIVE Repeat(_, _)
Repeat(c, n) == IF n = 0 THEN << >> ELSE <<c>> \o Repeat(c, n - 1)

\* The packed body b from its i-th token on, appended to acc.
RECURSIVE UnpackedAt(_, _, _)
UnpackedAt(b, i, acc) ==
    IF i > Len(b) THEN [ok |-> TRUE, out |-> acc]
    ELSE IF i = Len(b) \/ ~IsDigit(b[i + 1]) \/ b[i + 1] = "0"
    THEN [ok |-> FALSE]
    ELSE UnpackedAt(b, i + 2, acc \o Repeat(b[i], DigitValue(b[i + 1])))

Inflate(b) ==
    IF b = << >> THEN [ok |-> FALSE]
    ELSE IF b[1] = "stored" THEN [ok |-> TRUE, out |-> Tail(b)]
    ELSE IF b[1] = "packed" THEN UnpackedAt(b, 2, << >>)
    ELSE [ok |-> FALSE]

\* The encoder of compress_usage_data_with_config once finished.
Gzip(l, s) == GzHeader(l) \o Deflate(l, s) \o <<Checksum(s), ToString(Len(s))>>

\* The trailer of b verified against the inflated body.
GunzipTrailer(b, body) ==
    IF ~body.ok THEN [ok |-> FALSE]
    ELSE IF \/ b[Len(b) - 1] # Checksum(body.out)
            \/ b[Len(b)] # ToString(Len(body.out))
    THEN [ok |-> FALSE]
    ELSE body

\* GzDecoder::read_to_end: header, body, then the trailer is verified.
Gunzip(b) ==
    IF Len(b) < Len(GzHeader(0)) + 3 THEN [ok |-> FALSE]
    ELSE IF \/ SubSeq(b, 1, 5) # SubSeq(GzHeader(0), 1, 5)
            \/ b[6] \notin {"xfl0", "xfl2", "xfl4"}
            \/ b[9] # "nul"
    THEN [ok |-> FALSE]
    ELSE \* the body lies between header and trailer
         GunzipTrailer(b, Inflate(SubSeq(b, 10, Len(b) - 2)))

\* compress_usage_data_with_config(data, config), the map yielding its
\* entries in the order `order`.
CompressUsageDataWithConfig(m, order, l) ==
    IF l > MaxValidLevel THEN [kind |-> "InvalidLevel", level |-> l]
    ELSE [kind |-> "Ok", bytes |-> Gzip(l, ToJson(m, order))]

CompressWorkLateCheck(l) ==
    {"allocate", "serialize"} \cup (IF l > MaxValidLevel THEN {} ELSE {"finish"})

\* What compress_usage_data_with_config does after `if config.level > 9`:
\* the buffer of GzBuilder::write, serde_json::to_writer, encoder.finish.
CompressWork(l) ==
    IF l > MaxValidLevel THEN {} ELSE {"allocate", "serialize", "finish"}

\* decompress_usage_data(bytes)
DecompressUsageData(b) ==
    LET Deserialize(g) == IF ~g.ok THEN [kind |-> "Io"] ELSE FromJson(g.out)
    IN  Deserialize(Gunzip(b))

\* A mapping, a second HashMap equal to it, and a configuration.
InitCodec ==
    /\ data \in Mappings
    /\ data_order \in Orders(DOMAIN data)
    /\ copy_order \in Orders(DOMAIN data)
    /\ level \in Levels
    /\ compressed = [kind |-> "none"]
    /\ compressed_copy = [kind |-> "none"]
    /\ decompressed = [kind |-> "none"]
    /\ work = {}
    /\ input = [how |-> "none"]
    /\ decoded = [kind |-> "none"]
    /\ ThrottleParked
    /\ TickParked
    /\ MainParked
    /\ SettingsParked
    /\ HistoryParked
    /\ CountParked
    /\ GlobalParked

\* compress_usage_data_with_config(&data, config)
Compress ==
    /\ compressed.kind = "none"
    /\ compressed' = CompressUsageDataWithConfig(data, data_order, level)
    /\ work' = work \cup CompressWork(level)
    /\ UNCHANGED <<data, data_order, copy_order, level, compressed_copy,
                   decompressed, input, decoded, notCodec>>

\* compress_usage_data_with_config on the second HashMap.
CompressCopy ==
    /\ compressed_copy.kind = "none"
    /\ compressed_copy' = CompressUsageDataWithConfig(data, copy_order, level)
    /\ work' = work \cup CompressWork(level)
    /\ UNCHANGED <<data, data_order, copy_order, level, compressed,
                   decompressed, input, decoded, notCodec>>

\* decompress_usage_data(&compressed)
Decompress ==
    /\ compressed.kind = "Ok"
    /\ decompressed.kind = "none"
    /\ decompressed' = DecompressUsageData(compressed.bytes)
    /\ UNCHANGED <<data, data_order, copy_order, level, compressed,
                   compressed_copy, work, input, decoded, notCodec>>

NextCodec ==
    \/ Compress
    \/ CompressCopy
    \/ Decompress

SpecCodec == InitCodec /\ [][NextCodec]_allVars

\* C19: compressing at a level 0..9 returns Ok, and decompressing what it
\* returned gives Ok with a mapping equal to the one compressed.
C19_RoundTrip ==
    /\ (compressed.kind # "none" /\ level <= MaxValidLevel) => compressed.kind = "Ok"
    /\ decompressed.kind # "none" =>
          (decompressed.kind = "Ok" /\ decompressed.data = data)

\* A mapping with both names, one needing escapes and one total of two
\* digits, has been compressed and decompressed.
C19_Witness ==
    /\ decompressed.kind = "Ok"
    /\ DOMAIN data = Keys
    /\ \E k \in Keys : data[k] >= 10
    /\ level \in {0, MaxValidLevel}

\* C20: two HashMaps equal as mappings, compressed with the same
\* configuration, give the same bytes.
C20_Deterministic ==
    (compressed.kind = "Ok" /\ compressed_copy.kind = "Ok") =>
        compressed.bytes = compressed_copy.bytes

\* C21: a level above 9 returns InvalidLevel(level) and nothing else: no
\* bytes, and no buffer, serialization or compression work was done; a level
\* 0..9 returns Ok.
C21_InvalidLevelRejected ==
    compressed.kind # "none" =>
        IF level > MaxValidLevel
        THEN compressed = [kind |-> "InvalidLevel", level |-> level] /\ work = {}
        ELSE compressed.kind = "Ok"

\* Both compress calls were made on a mapping with entries at level 10.
C21_Witness ==
    /\ level = MaxValidLevel + 1
    /\ DOMAIN data = Keys
    /\ compressed.kind = "InvalidLevel"
    /\ compressed_copy.kind = "InvalidLevel"

\* ------------------------------------------------- the decoder on bad input

\* The levels whose blobs are damaged: stored and packed bodies, every XFL.
DecodeLevels == {0, 1, 5, MaxValidLevel}

\* Every strict prefix of a byte string.
Prefixes(b) == {SubSeq(b, 1, n) : n \in 0..(Len(b) - 1)}

\* A byte string with one byte replaced by a byte no blob holds.
Garbled(b) == {[b EXCEPT ![i] = "ff"] : i \in 1..Len(b)}

\* JSON texts that are not an object of unsigned numbers: a string value, a
\* leading zero, a trailing brace, a lone comma, a bare number, a trailing
\* comma.
NotMappings ==
    { <<"{", "\"", "x", "\"", ":", "\"", "x", "\"", "}">>,
      <<"{", "\"", "x", "\"", ":", "0", "1", "}">>,
      <<"{", "}", "}">>,
      <<"{", ",", "}">>,
      <<"1">>,
      <<"{", "\"", "x", "\"", ":", "1", ",", "}">> }

\* The inputs made from the blob of mapping m: cut short, garbled, and
\* intact gzip members whose text is cut short or is not a mapping.
BadInputs(m, order, l) ==
    {[how |-> "truncated", bytes |-> b] : b \in Prefixes(Gzip(l, ToJson(m, order)))}
        \cup {[how |-> "garbled", bytes |-> b] : b \in Garbled(Gzip(l, ToJson(m, order)))}
        \cup {[how |-> "not_a_mapping", bytes |-> Gzip(l, t)] :
                 t \in Prefixes(ToJson(m, order)) \cup NotMappings}

\* A damaged blob of some mapping is at hand.
InitDecode ==
    /\ data \in Mappings
    /\ data_order \in Orders(DOMAIN data)
    /\ copy_order = data_order
    /\ level \in DecodeLevels
    /\ input \in BadInputs(data, data_order, level)
    /\ compressed = [kind |-> "none"]
    /\ compressed_copy = [kind |-> "none"]
    /\ decompressed = [kind |-> "none"]
    /\ work = {}
    /\ decoded = [kind |-> "none"]
    /\ ThrottleParked
    /\ TickParked
    /\ MainParked
    /\ SettingsParked
    /\ HistoryParked
    /\ CountParked
    /\ GlobalParked

\* decompress_usage_data(&input)
DecodeInput ==
    /\ decoded.kind = "none"
    /\ decoded' = DecompressUsageData(input.bytes)
    /\ UNCHANGED <<data, data_order, copy_order, level, compressed, compressed_copy,
                   decompressed, work, input, notCodec>>

NextDecode == DecodeInput

SpecDecode == InitDecode /\ [][NextDecode]_allVars

\* C22: decompress_usage_data returns a value for every damaged input: Io for
\* a blob cut short, Serialization for a gzip member whose text is not a
\* mapping, and for a garbled blob an error or the mapping the blob was made
\* from; the call changes nothing but its result.
C22_DecodeRejects ==
    /\ [](decoded.kind # "none" =>
            /\ decoded.kind \in {"Ok", "Io", "Serialization"}
            /\ input.how = "truncated" => decoded.kind = "Io"
            /\ input.how = "not_a_mapping" => decoded.kind = "Serialization"
            /\ input.how = "garbled" =>
                  (decoded.kind \in {"Io", "Serialization"} \/ decoded.data = data))
    /\ [][decoded' # decoded =>
            UNCHANGED <<data, data_order, copy_order, level, compressed,
                        compressed_copy, decompressed, work, input, notCodec>>]_allVars

\* A gzip member that decompresses to the text of a two-entry mapping cut
\* short has been refused by the parser.
C22_Witness ==
    /\ decoded.kind = "Serialization"
    /\ input.how = "not_a_mapping"
    /\ DOMAIN data = Keys
    /\ level = MaxValidLevel
    /\ Gunzip(input.bytes).ok
    /\ Len(Gunzip(input.bytes).out) > 5

\* ------------------------------------------------- main: state across runs
\* CompressionConfig::default().level
DefaultLevel == 9

\* The bytes of an application name; the names tried are one character long.
NameChars(n) == <<n>>

\* The ledger as the codec sees it, and back.
Keyed(m) == [k \in {NameChars(n) : n \in DOMAIN m} |-> m[k[1]]]

Unkeyed(km) == [n \in {k[1] : k \in DOMAIN km} |-> km[NameChars(n)]]

Absent == [kind |-> "absent"]

\* What tokio::fs::write leaves when it succeeds: compress_usage_data(data).
SavedBytes(m, order) == CompressUsageDataWithConfig(Keyed(m), order, DefaultLevel).bytes

\* What a failing save_persisted_data may leave: the file as it was (the
\* directory or the file could not be created), or the file created and only
\* the first n bytes of the blob written, for the lengths tried.
Truncated(b) == {SubSeq(b, 1, n) : n \in {0, Len(b) \div 2}}

\* load_persisted_data(): None when the file is absent and when it does not
\* decode.
LoadPersistedData(f) ==
    IF f.kind = "absent" THEN [kind |-> "None"]
    ELSE IF DecompressUsageData(f.bytes).kind = "Ok"
    THEN [kind |-> "Some", data |-> Unkeyed(DecompressUsageData(f.bytes).data)]
    ELSE [kind |-> "None"]

UnwrapOrDefaultAlways(o) == EmptyMap

\* Option::unwrap_or_default
UnwrapOrDefault(o) == IF o.kind = "Some" THEN o.data ELSE EmptyMap

\* The snapshots main's runs see: process 1 runs "x", process 2 runs "y", and
\* each counter reads 0 or 1, so that a total grows by one byte at a time.
MainSnapshots ==
    {[p \in Pids |-> <<IF p = 1 THEN "x" ELSE "y", c[p]>>] : c \in [Pids -> 0..1]}

\* A first run: no file yet.
InitMain ==
    /\ main_pc = "load"
    /\ running = TRUE
    /\ last_saved = [kind |-> "none"]
    /\ complete = EmptyMap
    /\ file = Absent
    /\ app_usage = EmptyMap
    /\ prev_processes = EmptyMap
    /\ data_limit = 1
    /\ overflow_checks \in BOOLEAN
    /\ current_processes = EmptyMap
    /\ current_usage = EmptyMap
    /\ merged = {}
    /\ alerted = {}
    /\ last_step = "main"
    /\ ThrottleParked
    /\ CodecParked
    /\ SettingsParked
    /\ HistoryParked
    /\ CountParked
    /\ GlobalParked

\* let mut app_usage = load_persisted_data().await.unwrap_or_default();
LoadAtStartup ==
    /\ main_pc = "load"
    /\ app_usage' = UnwrapOrDefault(LoadPersistedData(file))
    /\ complete' = app_usage'
    /\ main_pc' = "check"
    /\ UNCHANGED <<prev_processes, current_processes, current_usage, data_limit,
                   overflow_checks, merged, alerted, file, last_step, running,
                   last_saved, notTick>>

\* The task spawned for tokio::signal::ctrl_c.
CtrlC ==
    /\ main_pc \in {"check", "select"}
    /\ Running
    /\ running
    /\ running' = FALSE
    /\ UNCHANGED <<tickVars, main_pc, last_saved, complete, notTick>>

AfterCheckNoSave(r) == IF r THEN "select" ELSE "exited_ok"

\* while running.load(Ordering::SeqCst) { select! ... } and what follows it
AfterCheck(r) == IF r THEN "select" ELSE "shutdown"

\* The first test of the loop condition; the later ones are the last part
\* of the arm that ran before them.
CheckRunning ==
    /\ main_pc = "check"
    /\ Running
    /\ main_pc' = AfterCheck(running)
    /\ UNCHANGED <<tickVars, running, last_saved, complete, notTick>>

\* The monitor_interval arm of select!.
MonitorArm(cur) ==
    /\ main_pc = "select"
    /\ MonitorProcesses(cur)
    /\ main_pc' = AfterCheck(running)
    /\ complete' = IF last_step' = "monitor_processes" THEN app_usage' ELSE complete
    /\ UNCHANGED <<running, last_saved>>

BaselineOnErrorCleared(prev) == EmptyMap

\* let current_processes = get_current_processes().await?; returns before
\* the baseline is touched.
BaselineOnError(prev) == prev

\* The same arm when get_current_processes fails: monitor_processes returns
\* the error at once and main logs it.
MonitorArmFails ==
    /\ main_pc = "select"
    /\ Running
    /\ main_pc' = AfterCheck(running)
    /\ last_step' = "get_current_processes_failed"
    /\ prev_processes' = BaselineOnError(prev_processes)
    /\ UNCHANGED <<current_processes, current_usage, app_usage, merged, alerted,
                   data_limit, overflow_checks, file, running, last_saved, complete,
                   notTick>>

\* save_persisted_data(&app_usage) returning Ok
SaveOk ==
    /\ Running
    /\ \E order \in Orders(DOMAIN Keyed(app_usage)) :
           file' = [kind |-> "bytes", bytes |-> SavedBytes(app_usage, order)]
    /\ last_saved' = [kind |-> "some", data |-> app_usage]
    /\ last_step' = "save_persisted_data"
    /\ UNCHANGED <<prev_processes, current_processes, current_usage, app_usage,
                   data_limit, overflow_checks, merged, alerted,
                   running, complete, notTick>>

\* save_persisted_data(&app_usage) returning Err
SaveErr ==
    /\ Running
    /\ \E order \in Orders(DOMAIN Keyed(app_usage)) :
           \/ file' = file
           \/ \E b \in Truncated(SavedBytes(app_usage, order)) :
                  file' = [kind |-> "bytes", bytes |-> b]
    /\ last_step' = "save_persisted_data_failed"
    /\ UNCHANGED <<prev_processes, current_processes, current_usage, app_usage,
                   data_limit, overflow_checks, merged, alerted,
                   running, last_saved, complete, notTick>>

\* The save_interval arm of select!; an error is logged.
SaveArm ==
    /\ main_pc = "select"
    /\ SaveOk \/ SaveErr
    /\ main_pc' = AfterCheck(running)

ExitStatusAlwaysOk(saved) == "exited_ok"

\* What main returns after the final save: `?` hands its error on.
ExitStatus(saved) == IF saved THEN "exited_ok" ELSE "exited_err"

\* save_persisted_data(&app_usage).await?; Ok(())
FinalSave ==
    /\ main_pc = "shutdown"
    /\ \/ SaveOk /\ main_pc' = ExitStatus(TRUE)
       \/ SaveErr /\ main_pc' = ExitStatus(FALSE)

\* The service is started again after it ended, by return or by panic.
Restart ==
    /\ main_pc \in {"exited_ok", "exited_err"} \/ ~Running
    /\ main_pc' = "load"
    /\ running' = TRUE
    /\ app_usage' = EmptyMap
    /\ prev_processes' = EmptyMap
    /\ complete' = EmptyMap
    /\ merged' = {}
    /\ alerted' = {}
    /\ last_step' = "main"
    /\ UNCHANGED <<current_processes, current_usage, data_limit, overflow_checks,
                   file, last_saved, notTick>>

NextMain ==
    \/ LoadAtStartup /\ UNCHANGED countVars
    \/ CtrlC /\ UNCHANGED countVars
    \/ CheckRunning /\ UNCHANGED countVars
    \/ \E cur \in MainSnapshots : MonitorArm(cur) /\ UNCHANGED countVars
    \/ MonitorArmFails /\ UNCHANGED countVars
    \/ SaveArm /\ UNCHANGED countVars
    \/ FinalSave /\ UNCHANGED countVars
    \/ Restart /\ UNCHANGED countVars

SpecMain == InitMain /\ [][NextMain]_allVars

\* ----------------------------------------------------------- main: claims
\* The file holds a blob that decompress_usage_data accepts.
Decodes(f) == f.kind = "bytes" /\ DecompressUsageData(f.bytes).kind = "Ok"

\* The ledger a decodable file holds.
Held(f) == Unkeyed(DecompressUsageData(f.bytes).data)

\* C23: when the file exists but holds bytes that do not decode, what the
\* restore at startup hands to its caller differs from what it hands over
\* when the file is absent, so that only absence ends in an empty ledger
\* without an error.
C23_CorruptSurfaced ==
    [][(main_pc = "load" /\ main_pc' = "check" /\ file.kind = "bytes" /\ ~Decodes(file))
           => LoadPersistedData(file) # LoadPersistedData(Absent)]_allVars

C25_NoPartialSave ==
    [][(file' # file /\ file'.kind = "bytes")
           => \A d \in {DecompressUsageData(file'.bytes)} :
                  d.kind = "Ok" => Unkeyed(d.data) = complete /\ complete' = complete]_allVars

\* A save followed a tick that merged a delta of two entries.
C25_Witness ==
    /\ main_pc = "select"
    /\ last_step = "save_persisted_data"
    /\ merged = Names
    /\ Decodes(file)
    /\ Held(file) = complete
    /\ complete = app_usage
    /\ app_usage["x"] > 0
    /\ app_usage["y"] > 0

\* C26: once the service loop has been left, no tick changes the ledger or
\* the snapshot any more, and a run that ends without error leaves a file
\* that decodes to the final ledger.
C26_FinalSave ==
    /\ [](main_pc = "exited_ok" => Decodes(file) /\ Held(file) = app_usage)
    /\ [][(main_pc \in {"shutdown", "exited_ok", "exited_err"} /\ main_pc' # "load")
              => UNCHANGED <<app_usage, prev_processes, merged, alerted>>]_allVars

\* A run ended without error after ticks that the last periodic save had not
\* seen, if there was one.
C26_Witness ==
    /\ main_pc = "exited_ok"
    /\ ~running
    /\ last_step = "save_persisted_data"
    /\ DOMAIN app_usage = Names
    /\ app_usage["x"] > 0
    /\ Held(file) = app_usage

\* ---------------------------------------------------------------- settings
MIN_DATA_LIMIT == 1048576              \* 1024 * 1024

MIN_CHECK_INTERVAL == 1

MIN_PERSISTENCE_INTERVAL == 10

DEFAULT_DATA_LIMIT == 1073741824       \* 1024 * 1024 * 1024

DEFAULT_CHECK_INTERVAL == 60

DEFAULT_PERSISTENCE_INTERVAL == 300

\* The fields of Settings.
Fields == {"data_limit", "check_interval_seconds", "persistence_interval_seconds"}

\* The values tried for a field: one below its minimum, its minimum, and for
\* the data limit the default as a second valid value.
FieldValues(f) ==
    CASE f = "data_limit" -> {MIN_DATA_LIMIT - 1, MIN_DATA_LIMIT, DEFAULT_DATA_LIMIT}
      [] f = "check_interval_seconds" -> {MIN_CHECK_INTERVAL - 1, MIN_CHECK_INTERVAL}
      [] f = "persistence_interval_seconds" ->
             {MIN_PERSISTENCE_INTERVAL - 1, MIN_PERSISTENCE_INTERVAL}

\* What a source may set: some of the fields.
Sources ==
    UNION {{src \in [D -> UNION {FieldValues(f) : f \in Fields}] :
                \A f \in D : src[f] \in FieldValues(f)} : D \in SUBSET Fields}

\* Settings values.
SettingsValues == {src \in Sources : DOMAIN src = Fields}

\* The set_default calls of Settings::new.
Defaults ==
    [data_limit |-> DEFAULT_DATA_LIMIT,
     check_interval_seconds |-> DEFAULT_CHECK_INTERVAL,
     persistence_interval_seconds |-> DEFAULT_PERSISTENCE_INTERVAL]

ValidateInclusive(st) ==
    IF st.data_limit <= MIN_DATA_LIMIT
    THEN [kind |-> "InvalidDataLimit", value |-> st.data_limit, min |-> MIN_DATA_LIMIT]
    ELSE IF st.check_interval_seconds <= MIN_CHECK_INTERVAL
    THEN [kind |-> "InvalidCheckInterval", value |-> st.check_interval_seconds,
          min |-> MIN_CHECK_INTERVAL]
    ELSE IF st.persistence_interval_seconds <= MIN_PERSISTENCE_INTERVAL
    THEN [kind |-> "InvalidPersistenceInterval",
          value |-> st.persistence_interval_seconds, min |-> MIN_PERSISTENCE_INTERVAL]
    ELSE [kind |-> "Ok"]

\* Settings::validate
Validate(st) ==
    IF st.data_limit < MIN_DATA_LIMIT
    THEN [kind |-> "InvalidDataLimit", value |-> st.data_limit, min |-> MIN_DATA_LIMIT]
    ELSE IF st.check_interval_seconds < MIN_CHECK_INTERVAL
    THEN [kind |-> "InvalidCheckInterval", value |-> st.check_interval_seconds,
          min |-> MIN_CHECK_INTERVAL]
    ELSE IF st.persistence_interval_seconds < MIN_PERSISTENCE_INTERVAL
    THEN [kind |-> "InvalidPersistenceInterval",
          value |-> st.persistence_interval_seconds, min |-> MIN_PERSISTENCE_INTERVAL]
    ELSE [kind |-> "Ok"]

\* ConfigBuilder::build on one source: each key the source holds is set in
\* the cache, over what an earlier source or a default had set.
Collect(cache, src) ==
    [f \in DOMAIN cache \cup DOMAIN src |-> IF f \in DOMAIN src THEN src[f] ELSE cache[f]]

\* Config::try_deserialize::<Settings>() followed by validate()?; Ok(settings)
Deserialized(cache) ==
    IF ~(Fields \subseteq DOMAIN cache) THEN [kind |-> "Config"]
    ELSE IF Validate(cache).kind # "Ok" THEN Validate(cache)
    ELSE [kind |-> "Ok", settings |-> cache]

\* Settings::new(): the sources are collected in the order of the add_source
\* calls, the environment first and the file, if it exists, second; the
\* defaults lie under all sources.
SettingsNew(e, f) ==
    IF f.kind = "invalid" THEN [kind |-> "Config"]
    ELSE IF f.kind = "absent" THEN Deserialized(Collect(Defaults, e))
    ELSE Deserialized(Collect(Collect(Defaults, e), f.fields))

\* Settings::from_file(path): the file is the only source and is required.
SettingsFromFile(f) ==
    IF f.kind # "fields" THEN [kind |-> "Config"] ELSE Deserialized(f.fields)

ConfigFiles ==
    {[kind |-> "absent"], [kind |-> "invalid"]}
        \cup {[kind |-> "fields", fields |-> src] : src \in Sources}

InitSettings ==
    /\ env \in Sources
    /\ config_file \in ConfigFiles
    /\ candidate \in SettingsValues
    /\ validated = [kind |-> "none"]
    /\ new_result = [kind |-> "none"]
    /\ from_file_result = [kind |-> "none"]
    /\ ThrottleParked
    /\ TickParked
    /\ CodecParked
    /\ MainParked
    /\ HistoryParked
    /\ CountParked
    /\ GlobalParked

\* candidate.validate()
CallValidate ==
    /\ validated.kind = "none"
    /\ validated' = Validate(candidate)
    /\ UNCHANGED <<env, config_file, candidate, new_result, from_file_result, notSettings>>

\* Settings::new()
CallNew ==
    /\ validated.kind # "none"
    /\ new_result.kind = "none"
    /\ new_result' = SettingsNew(env, config_file)
    /\ UNCHANGED <<env, config_file, candidate, validated, from_file_result, notSettings>>

\* Settings::from_file(path)
CallFromFile ==
    /\ new_result.kind # "none"
    /\ from_file_result.kind = "none"
    /\ from_file_result' = SettingsFromFile(config_file)
    /\ UNCHANGED <<env, config_file, candidate, validated, new_result, notSettings>>

NextSettings ==
    \/ CallValidate
    \/ CallNew
    \/ CallFromFile

SpecSettings == InitSettings /\ [][NextSettings]_allVars

\* ------------------------------------------------------- settings: claims
\* Every field is at least its minimum.
MeetsMinimums(st) ==
    /\ st.data_limit >= MIN_DATA_LIMIT
    /\ st.check_interval_seconds >= MIN_CHECK_INTERVAL
    /\ st.persistence_interval_seconds >= MIN_PERSISTENCE_INTERVAL

\* C27: validate returns Ok exactly when every field is at least its minimum
\* (so a field at its minimum passes and one below it fails), and neither
\* Settings::new nor Settings::from_file returns settings below a minimum.
C27_ValidateIffMinimums ==
    /\ validated.kind # "none" => (validated.kind = "Ok" <=> MeetsMinimums(candidate))
    /\ new_result.kind = "Ok" => MeetsMinimums(new_result.settings)
    /\ from_file_result.kind = "Ok" => MeetsMinimums(from_file_result.settings)

\* Settings with every field exactly at its minimum were validated, and both
\* constructors returned settings.
C27_Witness ==
    /\ candidate = [data_limit |-> MIN_DATA_LIMIT,
                    check_interval_seconds |-> MIN_CHECK_INTERVAL,
                    persistence_interval_seconds |-> MIN_PERSISTENCE_INTERVAL]
    /\ validated.kind = "Ok"
    /\ new_result.kind = "Ok"
    /\ from_file_result = [kind |-> "Ok", settings |-> candidate]

\* The value a field should resolve to: environment, else file, else default.
Documented(f) ==
    IF f \in DOMAIN env THEN env[f]
    ELSE IF config_file.kind = "fields" /\ f \in DOMAIN config_file.fields
    THEN config_file.fields[f]
    ELSE Defaults[f]

\* C28: the settings Settings::new returns hold, for every field, the value
\* of the environment variable if there is one, else the value of the config
\* file if it sets the field, else the default.
C28_Precedence ==
    new_result.kind = "Ok" => \A f \in Fields : new_result.settings[f] = Documented(f)

\* ------------------------------------------- the throttle, one caller
\* The shipped control loop: monitor_processes calls notification::alert_user
\* for one name after the other and waits for each call to return.
Caller == 1

\* send_platform_notification is invoked for the caller's name now.
Delivery ==
    /\ delivered' = [delivered EXCEPT ![app[Caller]] = now]
    /\ UNCHANGED outcome

NextSeq ==
    \/ Tick /\ UNCHANGED notThrottle
    \/ \E a \in Names : AlertUser(Caller, a) /\ UNCHANGED notThrottle
    \/ IsInCooldown(Caller) /\ UNCHANGED notThrottle
    \/ UpdateLastNotification(Caller) /\ UNCHANGED notThrottle
    \/ SendOk(Caller) /\ Delivery /\ UNCHANGED notHistory
    \/ SendFail(Caller) /\ Delivery /\ UNCHANGED notHistory

SpecSeq == Init /\ [][NextSeq]_allVars

\* C29, as claimed: with one sequential caller, a delivery invoked for a name
\* comes at least the cooldown window after the delivery invoked for that
\* name before it.
C29_DeliveriesApart ==
    [][\A n \in Names :
           (delivered[n] # None /\ delivered'[n] # delivered[n])
               => delivered'[n] - delivered[n] >= cooldown]_allVars

\* C29, amended: with one sequential caller, the instant recorded for a name
\* comes at least the cooldown window after the instant recorded for it
\* before, and a delivery is invoked at or after the instant its call
\* recorded; the time between a recording and its delivery is not part of
\* the window.
C29_AttemptsApart ==
    [][\A n \in Names :
           /\ (last_notifications[n] # None /\ last_notifications'[n] # last_notifications[n])
                  => /\ last_notifications'[n] # None
                     /\ last_notifications'[n] - last_notifications[n] >= cooldown
           /\ delivered'[n] # delivered[n]
                  => /\ last_notifications[n] # None
                     /\ delivered'[n] >= last_notifications[n]
                     /\ delivered[n] # None => delivered[n] <= last_notifications[n]]_allVars

\* Two deliveries for "x" were invoked, the second by a call that passed the
\* check a full window after the first call's recording.
C29_Witness ==
    /\ cooldown = MaxCooldown
    /\ calls >= 2
    /\ pc[Caller] = "idle"
    /\ rv[Caller] \in {"Ok", "ShowError"}
    /\ last_notifications["x"] = MaxTime
    /\ delivered["x"] = MaxTime
    /\ last_notifications["y"] = None

\* C30: a step of an alert_user call changes the recorded instant of no name
\* but the call's own, and a call returns Cooldown only when the entry of its
\* own name lies within the window.
C30_PerName ==
    [][/\ \A b \in Names :
              last_notifications'[b] # last_notifications[b]
                  => \E t \in Threads : pc'[t] # pc[t] /\ app[t] = b
       /\ \A t \in Threads :
              (rv'[t] = "Cooldown" /\ rv[t] # "Cooldown")
                  => /\ last_notifications[app[t]] # None
                     /\ cooldown > 0
                     /\ tnow[t] - last_notifications[app[t]] < cooldown]_allVars

\* "x" is in cooldown and a call for it was turned away, while a call for
\* "y" went through to delivery.
C30_Witness ==
    /\ cooldown > 0
    /\ rv[1] = "Cooldown"
    /\ app[1] = "x"
    /\ rv[2] = "Ok"
    /\ app[2] = "y"
    /\ last_notifications["x"] # None
    /\ last_notifications["y"] # None

\* ----------------------------------------------- the throttle: more claims
\* C31: the instant recorded for a name never goes back: a write over an
\* entry stores an instant at or after the one it replaces, whichever
\* threads passed the check, and no entry lies in the future of the clock.
C31_RecordedMonotone ==
    /\ [](\A n \in Names : last_notifications[n] # None => last_notifications[n] <= now)
    /\ [][\A n \in Names :
              (last_notifications[n] # None /\ last_notifications'[n] # last_notifications[n])
                  => last_notifications'[n] # None
                     /\ last_notifications'[n] > last_notifications[n]]_allVars

\* Two threads passed the check for "x" in the same window and both
\* recorded; the entry holds the later write.
C31_Witness ==
    /\ cooldown = MaxCooldown
    /\ calls = 2
    /\ \E s, t \in Threads :
           /\ s # t
           /\ pc[s] = "send_platform_notification" /\ app[s] = "x"
           /\ pc[t] = "send_platform_notification" /\ app[t] = "x"
    /\ now = MaxTime
    /\ last_notifications["x"] = now

\* C32: with a window of zero no name is in cooldown in any state, and every
\* call goes from the check to the recording and from the recording to
\* delivery: none returns Cooldown (or fails on the lock).
C32_ZeroWindow ==
    /\ [](cooldown = 0 =>
              /\ \A n \in Names : ~InCooldown(last_notifications[n], now, cooldown)
              /\ \A t \in Threads : rv[t] \in {"pending", "Ok", "ShowError"})
    /\ [][cooldown = 0 =>
              \A t \in Threads :
                  /\ (pc[t] = "is_in_cooldown" /\ pc'[t] # pc[t])
                         => pc'[t] = "update_last_notification"
                  /\ (pc[t] = "update_last_notification" /\ pc'[t] # pc[t])
                         => /\ pc'[t] = "send_platform_notification"
                            /\ last_notifications'[app[t]] = now]_allVars

\* With a window of zero, two calls for "x" at one instant both went through
\* to delivery.
C32_Witness ==
    /\ cooldown = 0
    /\ now = 0
    /\ last_notifications["x"] = 0
    /\ calls >= 2
    /\ \E s, t \in Threads :
           /\ s # t
           /\ pc[s] = "idle" /\ app[s] = "x" /\ rv[s] = "Ok"
           /\ pc[t] = "idle" /\ app[t] = "x" /\ rv[t] = "ShowError"

\* ------------------------------------------- accounting: one process followed
\* The process followed and the name it is followed under.
Followed == 1

FollowedName == "x"

\* Snapshots in which no other process runs under the followed name, so that
\* the delta of that name is the followed process's increment alone.
CountSnapshots ==
    {s \in Snapshots : \A p \in DOMAIN s : p # Followed => s[p][1] # FollowedName}

\* The snapshot shows the followed process under the followed name.
Shows(snap) == Followed \in DOMAIN snap /\ snap[Followed][1] = FollowedName

\* A fresh start of main: empty ledger, empty baseline.
InitCount ==
    /\ file = [kind |-> "absent"]
    /\ app_usage = EmptyMap
    /\ prev_processes = EmptyMap
    /\ data_limit = 1
    /\ overflow_checks \in BOOLEAN
    /\ current_processes = EmptyMap
    /\ current_usage = EmptyMap
    /\ merged = {}
    /\ alerted = {}
    /\ last_step = "main"
    /\ first_seen = None
    /\ counted = 0
    /\ ThrottleParked
    /\ CodecParked
    /\ MainParked
    /\ SettingsParked
    /\ HistoryParked
    /\ GlobalParked

\* A tick with the snapshot cur.  While the followed process keeps its name
\* and its counter does not go down, the delta merged for its name is added
\* to `counted`; otherwise the following starts anew at this snapshot.
CountedTick(cur) ==
    /\ MonitorProcesses(cur)
    /\ UNCHANGED mainVars
    /\ IF last_step' # "monitor_processes"
       THEN UNCHANGED countVars
       ELSE IF /\ first_seen # None
               /\ Shows(cur)
               /\ Shows(prev_processes)
               /\ cur[Followed][2] >= prev_processes[Followed][2]
       THEN /\ first_seen' = first_seen
            /\ counted' = counted + GetOrZero(Diff(prev_processes, cur).usage, FollowedName)
       ELSE /\ first_seen' = IF Shows(cur) THEN cur[Followed][2] ELSE None
            /\ counted' = 0

NextCount ==
    \/ \E cur \in CountSnapshots : CountedTick(cur)
    \/ SnapshotFails

SpecCount == InitCount /\ [][NextCount]_allVars

\* C33: while a process keeps its name and its counter does not go down,
\* the deltas merged for it since it was first seen add up to the counter of
\* the latest snapshot minus the counter it was first seen with: no byte is
\* merged twice.  The baseline is the snapshot of the latest completed tick.
C33_CountedOnce ==
    (Running /\ first_seen # None)
        => /\ Shows(prev_processes)
           /\ counted = prev_processes[Followed][2] - first_seen

\* The followed process was first seen with counter 0 and later with the
\* largest counter; all of it was merged, once.
C33_Witness ==
    /\ Running
    /\ first_seen = 0
    /\ counted = MaxU
    /\ prev_processes[Followed] = <<FollowedName, MaxU>>
    /\ FollowedName \in DOMAIN app_usage
    /\ app_usage[FollowedName] = MaxU

\* -------------------------------------------------- main: failures
\* C34: a tick whose snapshot cannot be taken changes neither the ledger nor
\* the baseline nor the cooldown map nor the file, merges nothing and asks for
\* no alert (what the tick before it merged and alerted stays on record), and
\* the loop goes on to test its condition.
C34_FailedSnapshotNoEffect ==
    [][(main_pc = "select" /\ (main_pc' # main_pc \/ last_step' # last_step)
            /\ last_step' = "get_current_processes_failed")
           => /\ UNCHANGED <<app_usage, prev_processes, complete, last_notifications,
                             delivered, running, merged, alerted, file>>
              /\ main_pc' = (IF running THEN "select" ELSE "shutdown")
              /\ Running']_allVars

\* A snapshot failed after ticks that had filled the ledger and the
\* baseline, and the loop is at its next round.
C34_Witness ==
    /\ last_step = "get_current_processes_failed"
    /\ main_pc = "select"
    /\ running
    /\ DOMAIN app_usage = Names
    /\ app_usage["x"] > 0
    /\ DOMAIN prev_processes = Pids
    /\ prev_processes[1][2] > 0

\* ------------------------------------- accounting: what alert_user returned
\* What notification::alert_user may return to monitor_processes.
AlertResults == {"Ok", "Cooldown", "ShowError"}

MergeGoesOnUnlessError(r) == r \in {"Ok", "Cooldown"}

\* The match on alert_user's result: every arm logs and falls through to the
\* next entry of the loop.
MergeGoesOn(r) == TRUE

\* The second loop of monitor_processes, alert_user returning o[n] when it is
\* called for n; `results` keeps what it returned.
RECURSIVE MergeLoopAlerting(_, _, _, _, _, _, _)
MergeLoopAlerting(order, i, delta, limit, checks, o, acc) ==
    IF i > Len(order) THEN acc
    ELSE LET n == order[i]
             old == GetOrZero(acc.usage, n)
             total == WrappingAdd(old, delta[n])
             next == [usage |-> Put(acc.usage, n, total),
                      merged |-> acc.merged \cup {n},
                      results |-> IF Exceeds(total, limit)
                                  THEN Put(acc.results, n, o[n]) ELSE acc.results,
                      panicked |-> FALSE]
         IN  IF Overflows(old, delta[n]) /\ checks
             THEN [acc EXCEPT !.usage = Put(acc.usage, n, old), !.panicked = TRUE]
             ELSE IF Exceeds(total, limit) /\ ~MergeGoesOn(o[n]) THEN next
             ELSE MergeLoopAlerting(order, i + 1, delta, limit, checks, o, next)

\* main with a restored ledger, before its first tick.
InitOutcome ==
    /\ file = [kind |-> "absent"]
    /\ app_usage \in UsageMaps
    /\ prev_processes = EmptyMap
    /\ data_limit = 1
    /\ overflow_checks \in BOOLEAN
    /\ current_processes = EmptyMap
    /\ current_usage = EmptyMap
    /\ merged = {}
    /\ alerted = {}
    /\ last_step = "main"
    /\ outcome = EmptyMap
    /\ delivered = [n \in Names |-> None]
    /\ ThrottleParked
    /\ CodecParked
    /\ MainParked
    /\ SettingsParked
    /\ CountParked
    /\ GlobalParked

\* monitor_processes with the snapshot cur, alert_user returning o[n] for n.
MonitorProcessesAlerting(cur, o) ==
    /\ Running
    /\ \E d \in {Diff(prev_processes, cur)} :
           IF d.overflowed /\ overflow_checks
           THEN /\ last_step' = "delta_overflow"
                /\ UNCHANGED <<prev_processes, app_usage, merged, alerted, outcome>>
           ELSE \E order \in Orders(DOMAIN d.usage) :
                \E r \in {MergeLoopAlerting(order, 1, d.usage, data_limit,
                              overflow_checks, o,
                              [usage |-> app_usage, merged |-> {},
                               results |-> EmptyMap, panicked |-> FALSE])} :
                    /\ prev_processes' = Baseline(prev_processes, cur)
                    /\ app_usage' = r.usage
                    /\ merged' = r.merged
                    /\ alerted' = DOMAIN r.results
                    /\ outcome' = r.results
                    /\ last_step' = IF r.panicked THEN "merge_overflow"
                                    ELSE "monitor_processes"
    /\ UNCHANGED <<current_processes, current_usage, data_limit, overflow_checks,
                   file, delivered, vars, codecVars, settingsVars, mainVars, countVars,
                   globalVars>>

NextOutcome ==
    \E cur \in MainSnapshots : \E o \in [Names -> AlertResults] :
        MonitorProcessesAlerting(cur, o)

SpecOutcome == InitOutcome /\ [][NextOutcome]_allVars

\* The ledgers a tick may leave when alert_user returns o2: one for each
\* order in which the delta may yield its entries.
LedgersWith(o2) ==
    {MergeLoopAlerting(order, 1, Diff(prev_processes, prev_processes').usage,
                       data_limit, overflow_checks, o2,
                       [usage |-> app_usage, merged |-> {},
                        results |-> EmptyMap, panicked |-> FALSE]).usage :
        order \in Orders(DOMAIN Diff(prev_processes, prev_processes').usage)}

\* C35: the ledger a tick leaves is one it leaves whatever alert_user
\* returns to it, for the same snapshots; and a tick that completes has
\* merged every entry of its delta and has asked for an alert for exactly
\* the merged names whose total lies over the limit, whatever the earlier
\* calls returned.
C35_OutcomeNoFeedback ==
    [][last_step' = "monitor_processes" =>
           /\ \A o2 \in [Names -> AlertResults] : app_usage' \in LedgersWith(o2)
           /\ merged' = DOMAIN Diff(prev_processes, prev_processes').usage
           /\ \A n \in merged' : n \in DOMAIN outcome' <=> app_usage'[n] > data_limit]_allVars

\* In one tick alert_user returned a delivery error for one name and Ok or
\* Cooldown for the other, and both names were merged.
C35_Witness ==
    /\ last_step = "monitor_processes"
    /\ merged = Names
    /\ DOMAIN outcome = Names
    /\ outcome["x"] = "ShowError"
    /\ outcome["y"] = "Cooldown"
    /\ app_usage["x"] > data_limit
    /\ app_usage["y"] > data_limit

\* C36: a periodic save that fails leaves ledger, baseline and running flag
\* as they were and puts the loop back at its condition, so that ticks and
\* saves go on while the flag is set; a final save that fails ends main with the error, and main ends
\* without error only after a final save that succeeded.
C36_FailedSave ==
    /\ [][(/\ main_pc \in {"select", "shutdown"}
            /\ last_step' = "save_persisted_data_failed"
            /\ (main_pc' # main_pc \/ last_step' # last_step \/ file' # file))
              => /\ UNCHANGED <<app_usage, prev_processes, complete, running, merged,
                                alerted, last_saved>>
                 /\ Running'
                 /\ IF main_pc = "shutdown" THEN main_pc' = "exited_err"
                    ELSE main_pc' = (IF running THEN "select" ELSE "shutdown")]_allVars
    /\ [](main_pc = "exited_ok" => last_step = "save_persisted_data")

\* A periodic save failed and left a file that does not decode, while the
\* ledger holds what the ticks merged and the loop is at its next round.
C36_Witness ==
    /\ last_step = "save_persisted_data_failed"
    /\ main_pc = "select"
    /\ running
    /\ file.kind = "bytes"
    /\ ~Decodes(file)
    /\ last_saved.kind = "some"
    /\ DOMAIN app_usage = Names
    /\ app_usage["x"] > 0
    /\ app_usage # last_saved.data

\* ------------------------------------------------------- main: shutdown
\* A step of main itself, told by the position it leaves and the one it
\* reaches: the startup, the test of the loop condition, an arm of select!
\* that ends the loop, the final save. Each is possible exactly when main is
\* at that position and has not panicked.
MainAdvances ==
    /\ Running
    /\ \/ main_pc = "load" /\ main_pc' = "check"
       \/ main_pc = "check" /\ main_pc' = AfterCheck(running)
       \/ main_pc = "select" /\ ~running /\ main_pc' = AfterCheck(running)
       \/ main_pc = "shutdown" /\ main_pc' \in {ExitStatus(TRUE), ExitStatus(FALSE)}

\* What the runtime's scheduling gives main: the task runs on whenever it
\* can, and an interval whose tick is due fires its arm of select!. The
\* interrupt signal and a restart of the service may or may not come.
FairMain == WF_main_pc(MainAdvances)

SpecMainLive == InitMain /\ [][NextMain]_allVars /\ FairMain

\* C37: once the interrupt has cleared the running flag, the flag is not set
\* again in that run, the loop lets at most the arm it is waiting for run and
\* then leaves, and main goes on to its final save and ends.
C37_ShutdownHonoured ==
    /\ [][(~running /\ main_pc' # "load") => ~running']_allVars
    /\ [][(~running /\ main_pc \in {"check", "select"} /\ main_pc' # "load"
              /\ <<tickVars, file, main_pc>>' # <<tickVars, file, main_pc>>)
             => main_pc' = "shutdown"]_allVars
    /\ (~running /\ main_pc \in {"check", "select"})
           ~> (main_pc \in {"exited_ok", "exited_err"} /\ ~running
                   /\ last_step \in {"save_persisted_data", "save_persisted_data_failed"})

\* ------------------------------------------- the process-wide manager
DEFAULT_COOLDOWN == 300

\* NotificationManager::new(cooldown)
New(c) == [cooldown |-> c, last_notifications |-> [n \in Names |-> None]]

\* impl Default for NotificationManager
Default == New(DEFAULT_COOLDOWN)

MayInitialiseRacy(state) == state # "complete"

\* OnceLock::get_or_init runs its closure only for the caller that finds the
\* cell empty; a caller that finds it being initialised waits.
MayInitialise(state) == state = "uninit"

\* The name the calls of the free function are made for.
TestApp == "x"

\* No manager exists yet; the clock and the threads are as in Init.
InitGlobal ==
    /\ cooldown = None
    /\ last_notifications = [n \in Names |-> None]
    /\ lock = NoThread
    /\ poisoned = FALSE
    /\ now = 0
    /\ pc = [t \in Threads |-> "idle"]
    /\ app = [t \in Threads |-> "x"]
    /\ tnow = [t \in Threads |-> 0]
    /\ rv = [t \in Threads |-> "pending"]
    /\ calls = 0
    /\ GlobalParked
    /\ TickParked
    /\ CodecParked
    /\ MainParked
    /\ SettingsParked
    /\ HistoryParked
    /\ CountParked

\* A thread enters the free function alert_user.
FreeAlertUser(t) ==
    /\ free_pc[t] = "idle"
    /\ pc[t] = "idle"
    /\ calls < MaxCalls
    /\ free_pc' = [free_pc EXCEPT ![t] = "get_or_init"]
    /\ UNCHANGED <<NOTIFICATION_MANAGER, instances, manager, waited>>
    /\ UNCHANGED <<vars, notGlobal>>

\* NOTIFICATION_MANAGER.get_or_init(NotificationManager::default): the
\* reference to the instance held, or the closure is started, or the thread
\* waits for the one that runs it.
GetOrInit(t) ==
    /\ free_pc[t] = "get_or_init"
    /\ IF NOTIFICATION_MANAGER.state = "complete"
       THEN /\ manager' = [manager EXCEPT ![t] = NOTIFICATION_MANAGER.value]
            /\ free_pc' = [free_pc EXCEPT ![t] = "alert_user"]
            /\ UNCHANGED <<NOTIFICATION_MANAGER, waited>>
       ELSE IF MayInitialise(NOTIFICATION_MANAGER.state)
       THEN /\ NOTIFICATION_MANAGER' = [NOTIFICATION_MANAGER EXCEPT !.state = "running"]
            /\ free_pc' = [free_pc EXCEPT ![t] = "default"]
            /\ UNCHANGED <<manager, waited>>
       ELSE /\ waited' = waited \cup {t}
            /\ UNCHANGED <<NOTIFICATION_MANAGER, free_pc, manager>>
    /\ UNCHANGED instances
    /\ UNCHANGED <<vars, notGlobal>>

\* The closure returns: the instance it built is stored in the cell and
\* get_or_init returns the reference to it.
DefaultReturns(t) ==
    /\ free_pc[t] = "default"
    /\ instances' = instances + 1
    /\ cooldown' = Default.cooldown
    /\ last_notifications' = Default.last_notifications
    /\ lock' = NoThread
    /\ poisoned' = FALSE
    /\ NOTIFICATION_MANAGER' = [state |-> "complete", value |-> instances']
    /\ manager' = [manager EXCEPT ![t] = instances']
    /\ free_pc' = [free_pc EXCEPT ![t] = "alert_user"]
    /\ UNCHANGED <<now, pc, app, tnow, rv, calls, waited>>
    /\ UNCHANGED notGlobal

\* manager.alert_user(app)
ManagerAlertUser(t, a) ==
    /\ free_pc[t] = "alert_user"
    /\ AlertUser(t, a)
    /\ free_pc' = [free_pc EXCEPT ![t] = "idle"]
    /\ UNCHANGED <<NOTIFICATION_MANAGER, instances, manager, waited>>
    /\ UNCHANGED notGlobal

\* Time goes by: the clock reaches the last instant inside the default
\* window that opened at 0, or the instant the window ends.
Elapse ==
    /\ \E at \in {DEFAULT_COOLDOWN - 1, DEFAULT_COOLDOWN} : at > now /\ now' = at
    /\ UNCHANGED <<cooldown, last_notifications, lock, poisoned, pc, app, tnow, rv, calls>>
    /\ UNCHANGED notThrottle

NextGlobal ==
    \/ \E t \in Threads : FreeAlertUser(t)
    \/ \E t \in Threads : GetOrInit(t)
    \/ \E t \in Threads : DefaultReturns(t)
    \/ \E t \in Threads : ManagerAlertUser(t, TestApp)
    \/ \E t \in Threads : IsInCooldown(t) /\ UNCHANGED notThrottle
    \/ \E t \in Threads : UpdateLastNotification(t) /\ UNCHANGED notThrottle
    \/ \E t \in Threads : SendOk(t) /\ UNCHANGED notThrottle
    \/ \E t \in Threads : SendFail(t) /\ UNCHANGED notThrottle
    \/ Elapse

SpecGlobal == InitGlobal /\ [][NextGlobal]_allVars

\* C38: the free function alert_user works on one manager for the whole
\* process. NotificationManager::default runs at most once, also when several
\* threads make the first call together; every reference a thread holds is
\* to that one instance, whose window is the default of 300 seconds; no
\* method call is made without it; an instant recorded through it by any
\* thread stays in the map; and a call is refused with Cooldown exactly when
\* that map holds, for its name, an instant less than 300 seconds before the
\* call's own.
C38_OneGlobalManager ==
    /\ [](instances <= 1)
    /\ [](\A t \in Threads :
              manager[t] # NoManager
                  => /\ instances = 1
                     /\ NOTIFICATION_MANAGER = [state |-> "complete", value |-> manager[t]])
    /\ [](NOTIFICATION_MANAGER.state = "complete" => cooldown = DEFAULT_COOLDOWN)
    /\ [](\A t \in Threads : pc[t] # "idle" => manager[t] # NoManager)
    /\ [][\A n \in Names :
              last_notifications[n] # None => last_notifications'[n] # None]_allVars
    /\ [][\A t \in Threads :
              (pc[t] = "is_in_cooldown" /\ pc'[t] \in {"idle", "update_last_notification"}
                   /\ ~poisoned)
                  => (rv'[t] = "Cooldown"
                        <=> /\ last_notifications[app[t]] # None
                            /\ tnow[t] - last_notifications[app[t]] < DEFAULT_COOLDOWN)]_allVars

\* Two threads made the first call together, one waiting while the other ran
\* the initialiser; both hold the same instance; the call of the one that
\* waited was refused, inside the window, because of the instant the other
\* had recorded.
C38_Witness ==
    \E s, t \in Threads :
        /\ s # t
        /\ s \in waited
        /\ t \notin waited
        /\ manager[s] = 1
        /\ manager[t] = 1
        /\ instances = 1
        /\ calls = 2
        /\ rv[t] = "Ok"
        /\ rv[s] = "Cooldown"
        /\ last_notifications[TestApp] = 0
        /\ now = DEFAULT_COOLDOWN - 1

====
